---- MODULE Spec2Model ----
(***************************************************************************)
(* The three cookbooks of the Contextual Anomaly Detection accelerator     *)
(* (train, create device, deploy model) as one state machine.  A run is    *)
(* one notebook executed top to bottom in a fresh kernel; a cell that      *)
(* raises stops the run.  The recipe service is remote: every response is  *)
(* a nondeterministic choice among the bodies it can send.                 *)
(***************************************************************************)
EXTENDS Integers, Sequences, FiniteSets, TLC

\* ---------------------------------------------------------------- bounds
\* summary GETs one training run may issue before the operator interrupts it
MaxPolls == 3
\* entries of a performance_dictionary
MaxModels == 2
\* rows of the asset-model file
MaxRows == 3

\* ---------------------------------------------------------------- values
\* A Python scalar as the notebooks see it: its type and its text.
PyStr(s) == [t |-> "str", v |-> s]
PyInt(s) == [t |-> "int", v |-> s]
PyNone == [t |-> "null", v |-> ""]
\* the value of a name the kernel has not bound
Unbound == [t |-> "unbound", v |-> ""]

\* job_id values a submission response can carry (JSON string or null)
JobIds == {PyStr("7151b7c4"), PyStr("12"), PyStr(""), PyNone}
\* mas_device_name values of the KPI specification file
DeviceNames == {PyStr("Wind_Turbine_Test_1"), PyStr("12")}
\* keys of the performance_dictionary of a training summary
ModelNames == {"LGBM1", "LGBM2", "RF"}
\* the artifact each candidate model was logged under
ModelUriOf(name) ==
    IF name = "LGBM1" THEN PyStr("s3://38/LGBM1_best.onnx")
    ELSE IF name = "LGBM2" THEN PyStr("s3://38/LGBM2_best.onnx")
    ELSE PyStr("s3://38/RF_best.onnx")
\* a performance figure of an entry (a rank of its R2 score)
Metrics == {1, 2}
Statuses == {"INITIALIZING", "EXECUTING", "DONE", "FAILED"}

\* ------------------------------------------------- performance_dictionary
\* An insertion-ordered dict: the sequence of its entries, keys distinct.
Entries == [name : ModelNames, model_uri : {ModelUriOf(n) : n \in ModelNames},
            performance : Metrics]
WellFormedEntry(e) == e.model_uri = ModelUriOf(e.name)
DistinctKeys(d) == \A i, j \in 1..Len(d) : i # j => d[i].name # d[j].name
PerformanceDictionaries ==
    {d \in UNION {[1..k -> {e \in Entries : WellFormedEntry(e)}] : k \in 0..MaxModels} :
        DistinctKeys(d)}
Keys(d) == [i \in 1..Len(d) |-> d[i].name]
\* d[key]: the entry stored under key (key is one of the keys of d)
Lookup(d, key) == d[CHOOSE i \in 1..Len(d) : d[i].name = key]

\* ------------------------------------------------------------------ YAML
\* A YAML scalar on disk: its text and whether it is written plain or quoted.
\* PyYAML's implicit resolver decides the type of a plain scalar by its text.
IntLexemes == {"12"}
NullLexemes == {"", "null", "~"}
Resolve(text) ==
    IF text \in IntLexemes THEN "int"
    ELSE IF text \in NullLexemes THEN "null"
    ELSE "str"

\* yaml.dump of one scalar: a str is written plain only if a plain scalar of
\* that text resolves back to str, and is quoted otherwise.
DumpScalarUnquoted(x) ==
    IF x.t = "null" THEN [style |-> "plain", text |-> "null"]
    ELSE [style |-> "plain", text |-> x.v]
DumpScalar(x) ==
    IF x.t = "null" THEN [style |-> "plain", text |-> "null"]
    ELSE IF x.t = "str" /\ Resolve(x.v) # "str" THEN [style |-> "single", text |-> x.v]
    ELSE [style |-> "plain", text |-> x.v]
\* yaml.safe_load of one scalar
LoadScalar(s) ==
    IF s.style = "single" THEN PyStr(s.text)
    ELSE IF Resolve(s.text) = "null" THEN PyNone
    ELSE IF Resolve(s.text) = "int" THEN PyInt(s.text)
    ELSE PyStr(s.text)

\* yaml.dump(output_data, file) / yaml.safe_load(file) of the ModelInfo mapping
yaml_dump(data) ==
    [mas_device_name |-> DumpScalar(data.mas_device_name),
     onnx_model_uri |-> DumpScalar(data.onnx_model_uri),
     train_job_id |-> DumpScalar(data.train_job_id)]
yaml_safe_load(doc) ==
    [mas_device_name |-> LoadScalar(doc.mas_device_name),
     onnx_model_uri |-> LoadScalar(doc.onnx_model_uri),
     train_job_id |-> LoadScalar(doc.train_job_id)]

NoModelInfo == [mas_device_name |-> Unbound, onnx_model_uri |-> Unbound,
                train_job_id |-> Unbound]
NoFile == [exists |-> FALSE, doc |-> yaml_dump(NoModelInfo)]

\* ------------------------------------------------------------- responses
\* Body of the answer to a submission POST, with its HTTP status code.
NoResponse == [status_code |-> 0, json |-> FALSE, has_job_id |-> FALSE, job_id |-> Unbound]
PostResponses ==
    {[status_code |-> c, json |-> FALSE, has_job_id |-> FALSE, job_id |-> Unbound] :
        c \in {200, 500}}
    \cup {[status_code |-> c, json |-> TRUE, has_job_id |-> FALSE, job_id |-> Unbound] :
        c \in {200, 500}}
    \cup {[status_code |-> c, json |-> TRUE, has_job_id |-> TRUE, job_id |-> j] :
        c \in {200, 500}, j \in JobIds}

\* Body of the answer to GET summary/{job_id}.
NoSummary == [json |-> FALSE, has_status |-> FALSE, status |-> "",
              has_pd |-> FALSE, pd |-> << >>]
SummaryResponses ==
    {NoSummary}
    \cup {[json |-> TRUE, has_status |-> FALSE, status |-> "", has_pd |-> FALSE, pd |-> << >>]}
    \cup {[json |-> TRUE, has_status |-> TRUE, status |-> s, has_pd |-> FALSE, pd |-> << >>] :
        s \in Statuses}
    \cup {[json |-> TRUE, has_status |-> TRUE, status |-> s, has_pd |-> TRUE, pd |-> d] :
        s \in Statuses, d \in PerformanceDictionaries}

\* Body of the answer to GET log/{job_id}.
NoLogs == [json |-> FALSE, has_logs |-> FALSE]
LogResponses == {NoLogs, [json |-> TRUE, has_logs |-> FALSE], [json |-> TRUE, has_logs |-> TRUE]}

Notebooks == {"train", "create_device", "deploy_model"}

\* ------------------------------------------------------ asset-model file
\* The 'dimension' column of ../data/Wind_Turbine_Asset_Model.csv: one name of
\* a variable per row. A text is the sequence of its pieces.
Dimensions == {"speed", "power", "temperature"}
Columns == UNION {[1..k -> Dimensions] : k \in 0..MaxRows}
\* the column of the file at hand in the runs of the three notebooks
Wind_Turbine_Asset_Model == <<"speed", "power", "speed">>

\* Series.unique(): the distinct values, in order of first appearance
RECURSIVE uniqueKeepLast(_)
uniqueKeepLast(col) ==
    IF col = << >> THEN << >>
    ELSE LET rest == uniqueKeepLast(Tail(col))
         IN  IF \E i \in 1..Len(rest) : rest[i] = Head(col)
             THEN rest ELSE <<Head(col)>> \o rest
RECURSIVE unique(_)
unique(col) ==
    IF col = << >> THEN << >>
    ELSE LET n == Len(col)
             seen == unique(SubSeq(col, 1, n - 1))
         IN  IF \E i \in 1..Len(seen) : seen[i] = col[n]
             THEN seen ELSE Append(seen, col[n])
\* ",".join(values)
RECURSIVE join(_)
join(values) ==
    IF values = << >> THEN << >>
    ELSE IF Len(values) = 1 THEN values
    ELSE <<Head(values), ",">> \o join(Tail(values))

VARIABLES
    Pavg_kpi,               \* ../config/Pavg_kpi.yml: its mas_device_name
    model_info_yml,         \* ../config/model_info.yml on disk
    lastDumped,             \* the mapping most recently given to yaml.dump
    dimension,              \* ../data/Wind_Turbine_Asset_Model.csv: its dimension column
    savedFrom,              \* the training job behind model_info.yml, as the run that wrote it saw it:
                            \* its job_id, its last status, whether its summary lists the model_uri dumped
    nb, pc, error,          \* the running notebook, its next cell, the exception raised
    ns,                     \* names bound in the kernel
    input_data, files, response, job_id,
    json_data, performance_dictionary, model, model_selected, choice,
    model_info_data, payload, logs, summary,
    printed,                \* what the status cell printed under 'LOGS :: '
    posts, summaryGets, logGets, getIds, waited, wrote

disk == <<Pavg_kpi, model_info_yml, lastDumped, savedFrom, dimension>>
run == <<nb, pc, error>>
submitVars == <<input_data, files, response, job_id, payload, model_info_data, posts>>
trainVars == <<json_data, performance_dictionary, model, model_selected, choice, waited, wrote>>
statusVars == <<logs, summary, logGets, printed>>
vars == <<disk, run, ns, submitVars, trainVars, statusVars, summaryGets, getIds>>

NoPayload == [mas_device_name |-> Unbound, onnx_model_uri |-> Unbound,
              train_job_id |-> Unbound, prepare_kpi_dashboard |-> Unbound]

\* no training job has been saved yet
NoJob == [job_id |-> Unbound, status |-> "", has_model_uri |-> FALSE]

Init ==
    /\ Pavg_kpi \in DeviceNames
    /\ model_info_yml = NoFile
    /\ lastDumped = NoModelInfo
    /\ savedFrom = NoJob
    /\ dimension = Wind_Turbine_Asset_Model
    /\ nb = "none" /\ pc = "idle" /\ error = ""
    /\ ns = {}
    /\ input_data = Unbound /\ files = {} /\ response = NoResponse /\ job_id = Unbound
    /\ json_data = NoSummary /\ performance_dictionary = << >> /\ model = ""
    /\ model_selected = "" /\ choice = 0
    /\ model_info_data = NoModelInfo /\ payload = NoPayload
    /\ logs = NoLogs /\ summary = NoSummary /\ printed = ""
    /\ posts = 0 /\ summaryGets = 0 /\ logGets = 0 /\ getIds = {} /\ waited = FALSE
    /\ wrote = FALSE

\* A cell raises: the run stops there.
Raise(e) == pc' = "error" /\ error' = e /\ nb' = nb

\* The operator opens notebook n in a fresh kernel (nothing bound, no file open);
\* ../config/Pavg_kpi.yml is the operator's input and may have been edited
\* since the last run.
StartRun(n) ==
    /\ pc \in {"idle", "done", "error"}
    /\ Pavg_kpi' \in DeviceNames
    /\ nb' = n /\ pc' = "load" /\ error' = ""
    /\ ns' = {}
    /\ input_data' = Unbound /\ files' = {} /\ response' = NoResponse /\ job_id' = Unbound
    /\ json_data' = NoSummary /\ performance_dictionary' = << >> /\ model' = ""
    /\ model_selected' = "" /\ choice' = 0
    /\ model_info_data' = NoModelInfo /\ payload' = NoPayload
    /\ logs' = NoLogs /\ summary' = NoSummary /\ printed' = ""
    /\ posts' = 0 /\ summaryGets' = 0 /\ logGets' = 0 /\ getIds' = {} /\ waited' = FALSE
    /\ wrote' = FALSE
    /\ UNCHANGED <<model_info_yml, lastDumped, savedFrom, dimension>>

\* Cells "Load KPI specification file" and "Load API Service config file".
LoadConfig ==
    /\ pc = "load"
    /\ input_data' = Pavg_kpi
    /\ ns' = ns \cup {"input_data", "model_factory_config"}
    /\ pc' = IF nb = "train" THEN "payload" ELSE "load_model_info"
    /\ UNCHANGED <<disk, nb, error, files, response, job_id, payload, model_info_data, posts,
                   trainVars, statusVars, summaryGets, getIds>>

\* ------------------------------------------------------- train notebook
\* Cell "Generate Training Payload": the payload fields and files=[('data_file', open(...))].
OpenedFiles(n) ==
    IF n = "train" THEN {"data_file"}
    ELSE IF n = "create_device" THEN {"iot_credentials", "data_file", "assetmodel_file"}
    ELSE {"iot_credentials"}

TrainPayload ==
    /\ nb = "train" /\ pc = "payload"
    /\ files' = files \cup OpenedFiles(nb)
    /\ ns' = ns \cup {"payload", "files"}
    /\ pc' = "post"
    /\ UNCHANGED <<disk, nb, error, input_data, response, job_id, payload, model_info_data,
                   posts, trainVars, statusVars, summaryGets, getIds>>

\* response = requests.request("POST", ...): one call, in no loop and no try,
\* on the default session (no retry adapter). Whether a POST that failed in
\* transport is sent again after `sent` attempts.
PostIsRetriedOnce(sent) == sent < 2
PostIsRetried(sent) == FALSE

\* Cell "Post Training Job": response = requests.request("POST", ...).
TrainPost ==
    /\ nb = "train" /\ pc = "post"
    /\ posts' = posts + 1
    /\ \/ /\ IF PostIsRetried(posts') THEN UNCHANGED run ELSE Raise("ConnectionError")
          /\ UNCHANGED <<response, ns>>
       \/ \E r \in PostResponses :
             /\ response' = r
             /\ ns' = ns \cup {"endpoint_url", "response"}
             /\ pc' = "bind" /\ UNCHANGED <<nb, error>>
    /\ UNCHANGED <<disk, input_data, files, job_id, payload, model_info_data,
                   trainVars, statusVars, summaryGets, getIds>>

\* post_r_json = response.json(); job_id = post_r_json['job_id']:
\* the exception these two statements raise on body r, "" when they raise none.
JobIdErrorDefaulted(r) ==
    IF ~r.json THEN "JSONDecodeError" ELSE ""
JobIdError(r) ==
    IF ~r.json THEN "JSONDecodeError"
    ELSE IF ~r.has_job_id THEN "KeyError"
    ELSE ""
\* the names the two statements bind before they raise or finish
JobIdBinds(r) ==
    IF ~r.json THEN {}
    ELSE IF JobIdError(r) # "" THEN {"post_r_json"}
    ELSE {"post_r_json", "job_id"}

\* Cell after the POST: reads the job id out of the response.
TrainBind ==
    /\ nb = "train" /\ pc = "bind"
    /\ ns' = ns \cup JobIdBinds(response)
    /\ IF JobIdError(response) # ""
       THEN Raise(JobIdError(response)) /\ UNCHANGED job_id
       ELSE /\ job_id' = response.job_id
            /\ pc' = "poll" /\ UNCHANGED <<nb, error>>
    /\ UNCHANGED <<disk, input_data, files, response, payload, model_info_data, posts,
                   trainVars, statusVars, summaryGets, getIds>>

\* if 'status' in json_data: if json_data['status'] == 'DONE'
IsDoneOrFailed(body) == body.has_status /\ body.status \in {"DONE", "FAILED"}
IsDoneLoose(body) == body.has_status /\ body.status \in {"DONE", "EXECUTING"}
IsDone(body) == body.has_status /\ body.status = "DONE"

\* Where the poll loop goes after the body of one summary GET:
\* "select" is the cell after the loop (break), "sleep" is sleep(2), "poll" the loop's top.
PollNextPcNoBreak(body) ==
    IF body.has_status
    THEN IF body.status = "DONE" THEN "poll" ELSE "sleep"
    ELSE "poll"
PollNextPcNoSleep(body) ==
    IF body.has_status
    THEN IF body.status = "DONE" THEN "select" ELSE "poll"
    ELSE "poll"
PollNextPcFailFast(body) ==
    IF body.has_status
    THEN IF body.status = "DONE" THEN "select"
         ELSE IF body.status \in {"INITIALIZING", "EXECUTING"} THEN "sleep"
         ELSE "error"
    ELSE "poll"
PollNextPc(body) ==
    IF body.has_status
    THEN IF IsDone(body) THEN "select" ELSE "sleep"
    ELSE "poll"

\* for model in performance_dictionary.keys(): leaves model at the last key
LastKey(d) == Keys(d)[Len(d)]

\* summary_url = endpoint_url + "summary/" + job_id (and log_url likewise):
\* the job a status request names, given the run's job_id and its ModelInfo.
RequestedJobIdOfTraining(jid, info) ==
    IF info = NoModelInfo THEN jid ELSE info.train_job_id
RequestedJobId(jid, info) == jid

\* performance_dictionary = json_data['summary']['performance_dictionary']:
\* the exception the subscripts raise on body r, "" when they raise none.
DictionaryErrorDefaulted(r) == ""
DictionaryError(r) == IF ~r.has_pd THEN "KeyError" ELSE ""

\* Cell "Request Training Summary": one turn of the while True loop, where the
\* service answers with a body of R (or, for failed in F, the request raises)
\* and n is the number of summary GETs issued once this one is.
PollTurn(R, F, n) ==
    /\ nb = "train" /\ pc = "poll"
    /\ IF job_id.t # "str"
       THEN /\ Raise("TypeError")
            /\ UNCHANGED <<ns, json_data, performance_dictionary, model, waited,
                           summaryGets, getIds>>
       ELSE /\ summaryGets' = n
            /\ getIds' = getIds \cup {RequestedJobId(job_id, model_info_data)}
            /\ waited' = FALSE
            /\ \/ /\ TRUE \in F
                  /\ Raise("ConnectionError")
                  /\ ns' = ns \cup {"log_url", "summary_url"}
                  /\ UNCHANGED <<json_data, performance_dictionary, model>>
               \/ \E r \in R :
                IF ~r.json
                THEN /\ Raise("JSONDecodeError")
                     /\ ns' = ns \cup {"log_url", "summary_url"}
                     /\ UNCHANGED <<json_data, performance_dictionary, model>>
                ELSE /\ json_data' = r
                     /\ IF IsDone(r)
                        THEN IF DictionaryError(r) # ""
                             THEN /\ Raise(DictionaryError(r))
                                  /\ ns' = ns \cup {"log_url", "summary_url", "json_data"}
                                  /\ UNCHANGED <<performance_dictionary, model>>
                             ELSE /\ performance_dictionary' = r.pd
                                  /\ model' = IF Len(r.pd) > 0 THEN LastKey(r.pd) ELSE model
                                  /\ ns' = ns \cup {"log_url", "summary_url", "json_data",
                                                    "performance_dictionary"}
                                              \cup (IF Len(r.pd) > 0 THEN {"model"} ELSE {})
                                  /\ pc' = PollNextPc(r) /\ UNCHANGED <<nb, error>>
                        ELSE /\ ns' = ns \cup {"log_url", "summary_url", "json_data"}
                             /\ pc' = PollNextPc(r) /\ UNCHANGED <<nb, error>>
                             /\ UNCHANGED <<performance_dictionary, model>>
    /\ UNCHANGED <<disk, submitVars, model_selected, choice, wrote, statusVars>>

\* The loop against a service that may answer anything, or not at all; the
\* count of GETs is kept below MaxPolls.
TrainPollGet ==
    /\ summaryGets < MaxPolls
    /\ PollTurn(SummaryResponses, BOOLEAN, summaryGets + 1)

\* The loop against a reachable service whose job has settled in a status
\* other than DONE; the count of GETs stops at MaxPolls, the loop does not.
SettledResponses ==
    {r \in SummaryResponses : r.json /\ r.has_status /\ r.status # "DONE"}
PollGetSettled ==
    PollTurn(SettledResponses, {FALSE},
             IF summaryGets < MaxPolls THEN summaryGets + 1 ELSE summaryGets)

\* sleep(2) in the else branch of the loop
TrainPollSleep ==
    /\ nb = "train" /\ pc = "sleep"
    /\ waited' = TRUE
    /\ pc' = "poll"
    /\ UNCHANGED <<disk, nb, error, ns, submitVars, json_data, performance_dictionary, model,
                   model_selected, choice, wrote, statusVars, summaryGets, getIds>>

\* The operator interrupts the kernel while the loop runs.
Interrupt ==
    /\ nb = "train" /\ pc \in {"poll", "sleep"}
    /\ Raise("KeyboardInterrupt")
    /\ UNCHANGED <<disk, ns, submitVars, trainVars, statusVars, summaryGets, getIds>>

\* model_selected = list(performance_dictionary.keys())[0], or the key the
\* operator writes in its place: c = 0 is the cell as shipped, c >= 1 the c-th key.
selectModelBest(d, c) ==
    IF c = 0
    THEN Keys(d)[CHOOSE i \in 1..Len(d) :
                    \A j \in 1..Len(d) : d[j].performance <= d[i].performance]
    ELSE Keys(d)[c]
selectModel(d, c) == IF c = 0 THEN Keys(d)[1] ELSE Keys(d)[c]

\* Cell "Trained Model Names".
TrainSelect ==
    /\ nb = "train" /\ pc = "select"
    /\ IF Len(performance_dictionary) = 0
       THEN Raise("IndexError") /\ UNCHANGED <<ns, model_selected, choice>>
       ELSE /\ \E c \in 0..Len(performance_dictionary) :
                /\ choice' = c
                /\ model_selected' = selectModel(performance_dictionary, c)
            /\ ns' = ns \cup {"model_selected"}
            /\ pc' = "save" /\ UNCHANGED <<nb, error>>
    /\ UNCHANGED <<disk, submitVars, json_data, performance_dictionary, model, waited, wrote,
                   statusVars, summaryGets, getIds>>

\* What open(path, mode) leaves of file f: "w" truncates (and creates) it, the
\* read modes leave it as it is.
EmptyFile == [exists |-> TRUE, doc |-> yaml_dump(NoModelInfo)]
FileAfterOpenTruncating(f, mode) == EmptyFile
FileAfterOpen(f, mode) == IF mode = "w" THEN EmptyFile ELSE f

\* the mapping the save cell builds
output_dataFixedJob ==
    [mas_device_name |-> input_data,
     onnx_model_uri |-> Lookup(performance_dictionary, model).model_uri,
     train_job_id |-> PyStr("7151b7c4")]
output_data ==
    [mas_device_name |-> input_data,
     onnx_model_uri |-> Lookup(performance_dictionary, model).model_uri,
     train_job_id |-> job_id]

\* Cell "Save Model Information".
TrainSave ==
    /\ nb = "train" /\ pc = "save"
    /\ IF IsDone(json_data)
       THEN /\ model_info_yml' = [FileAfterOpen(model_info_yml, "w")
                                    EXCEPT !.doc = yaml_dump(output_data)]
            /\ lastDumped' = output_data
            /\ savedFrom' = [job_id |-> job_id, status |-> json_data.status,
                             has_model_uri |-> \E i \in 1..Len(json_data.pd) :
                                json_data.pd[i].model_uri = output_data.onnx_model_uri]
            /\ wrote' = TRUE
            /\ ns' = ns \cup {"output_data"}
       ELSE UNCHANGED <<model_info_yml, lastDumped, savedFrom, wrote, ns>>
    /\ pc' = "done"
    /\ UNCHANGED <<Pavg_kpi, dimension, nb, error, submitVars, json_data, performance_dictionary, model,
                   model_selected, choice, waited, statusVars, summaryGets, getIds>>

\* ------------------------------------- create-device and deploy notebooks
\* Cell "Load Model specification file": yaml.safe_load of ../config/model_info.yml.
LoadModelInfo ==
    /\ nb \in {"create_device", "deploy_model"} /\ pc = "load_model_info"
    /\ IF ~model_info_yml.exists
       THEN Raise("FileNotFoundError") /\ UNCHANGED <<model_info_data, ns, model_info_yml>>
       ELSE /\ model_info_yml' = FileAfterOpen(model_info_yml, "r")
            /\ model_info_data' = yaml_safe_load(model_info_yml'.doc)
            /\ ns' = ns \cup {"model_info_data"}
            /\ pc' = "payload" /\ UNCHANGED <<nb, error>>
    /\ UNCHANGED <<Pavg_kpi, lastDumped, savedFrom, dimension, input_data, files, response, job_id, payload, posts,
                   trainVars, statusVars, summaryGets, getIds>>

\* the form fields each notebook takes from the ModelInfo record
PayloadOfKpiName(n, info) ==
    IF n = "create_device"
    THEN [device_type_name |-> input_data,
          metric_columns |-> join(unique(dimension))]
    ELSE [mas_device_name |-> info.mas_device_name, onnx_model_uri |-> info.onnx_model_uri,
          train_job_id |-> info.train_job_id, prepare_kpi_dashboard |-> [t |-> "bool", v |-> "False"]]
PayloadOfSwapped(n, info) ==
    IF n = "create_device"
    THEN [device_type_name |-> info.mas_device_name,
          metric_columns |-> join(unique(dimension))]
    ELSE [mas_device_name |-> info.mas_device_name, onnx_model_uri |-> info.train_job_id,
          train_job_id |-> info.onnx_model_uri, prepare_kpi_dashboard |-> [t |-> "bool", v |-> "False"]]
PayloadOf(n, info) ==
    IF n = "create_device"
    THEN [device_type_name |-> info.mas_device_name,
          metric_columns |-> join(unique(dimension))]
    ELSE [mas_device_name |-> info.mas_device_name, onnx_model_uri |-> info.onnx_model_uri,
          train_job_id |-> info.train_job_id, prepare_kpi_dashboard |-> [t |-> "bool", v |-> "False"]]

\* Cells "Prepare Payload": the variables, the payload dict and the files list.
PreparePayload ==
    /\ nb \in {"create_device", "deploy_model"} /\ pc = "payload"
    /\ payload' = PayloadOf(nb, model_info_data)
    /\ files' = files \cup OpenedFiles(nb)
    /\ ns' = ns \cup {"payload", "files"}
    /\ pc' = "post"
    /\ UNCHANGED <<disk, nb, error, input_data, response, job_id, model_info_data, posts,
                   trainVars, statusVars, summaryGets, getIds>>

\* Cell "Post ... Job": requests.post, response.json(), post_r_json['job_id'].
SubmitJob ==
    /\ nb \in {"create_device", "deploy_model"} /\ pc = "post"
    /\ posts' = posts + 1
    /\ \/ /\ IF PostIsRetried(posts') THEN UNCHANGED run ELSE Raise("ConnectionError")
          /\ UNCHANGED <<response, job_id, ns>>
       \/ \E r \in PostResponses :
             /\ response' = r
             /\ ns' = ns \cup {"endpoint_url", "response"} \cup JobIdBinds(r)
             /\ IF JobIdError(r) # ""
                THEN Raise(JobIdError(r)) /\ UNCHANGED job_id
                ELSE /\ job_id' = r.job_id
                     /\ pc' = "status" /\ UNCHANGED <<nb, error>>
    /\ UNCHANGED <<disk, input_data, files, payload, model_info_data,
                   trainVars, statusVars, summaryGets, getIds>>

\* Where the status cell goes after its summary GET: it has no loop.
StatusNextPcUntilDone(body) ==
    IF body.has_status /\ body.status = "DONE" THEN "done" ELSE "status"
StatusNextPc(body) == "done"

\* GETs to log/{job_id} the status cell of notebook n issues: the train
\* notebook builds log_url and never requests it.
LogRequestsNone(n) == 0
LogRequests(n) == IF n \in {"create_device", "deploy_model"} THEN 1 ELSE 0

\* if "logs" in logs.json(): print(logs.json()["logs"]) else: print(logs.json()):
\* what the cell prints for the JSON body l ("logs": the text of its logs
\* field, "body": the whole body), or the exception it raises.
LogShownStrict(l) == IF l.has_logs THEN "logs" ELSE "KeyError"
LogShown(l) == IF l.has_logs THEN "logs" ELSE "body"

\* Cell "Request job log and summary": one log GET, then one summary GET.
RequestLogAndSummary ==
    /\ nb \in {"create_device", "deploy_model"} /\ pc = "status"
    /\ summaryGets < MaxPolls
    /\ IF job_id.t # "str"
       THEN /\ Raise("TypeError")
            /\ UNCHANGED <<ns, logs, summary, logGets, printed, summaryGets, getIds>>
       ELSE /\ logGets' = logGets + LogRequests(nb)
            /\ getIds' = getIds \cup {RequestedJobId(job_id, model_info_data)}
            /\ \/ /\ Raise("ConnectionError")
                  /\ UNCHANGED <<ns, logs, summary, printed, summaryGets>>
               \/ \E l \in LogResponses :
                IF ~l.json
                THEN /\ Raise("JSONDecodeError")
                     /\ ns' = ns \cup {"logs"}
                     /\ UNCHANGED <<logs, summary, printed, summaryGets>>
                ELSE IF LogShown(l) = "KeyError"
                THEN /\ Raise("KeyError")
                     /\ logs' = l
                     /\ ns' = ns \cup {"logs"}
                     /\ UNCHANGED <<summary, printed, summaryGets>>
                ELSE /\ logs' = l
                     /\ printed' = LogShown(l)
                     /\ summaryGets' = summaryGets + 1
                     /\ \/ /\ Raise("ConnectionError")
                           /\ ns' = ns \cup {"logs"}
                           /\ UNCHANGED summary
                        \/ \E r \in SummaryResponses :
                         IF ~r.json
                         THEN /\ Raise("JSONDecodeError")
                              /\ ns' = ns \cup {"logs", "summary"}
                              /\ UNCHANGED summary
                         ELSE /\ summary' = r
                              /\ ns' = ns \cup {"logs", "summary"}
                              /\ pc' = StatusNextPc(r) /\ UNCHANGED <<nb, error>>
    /\ UNCHANGED <<disk, submitVars, trainVars>>

Next ==
    \/ \E n \in Notebooks : StartRun(n)
    \/ LoadConfig
    \/ TrainPayload
    \/ TrainPost
    \/ TrainBind
    \/ TrainPollGet
    \/ TrainPollSleep
    \/ Interrupt
    \/ TrainSelect
    \/ TrainSave
    \/ LoadModelInfo
    \/ PreparePayload
    \/ SubmitJob
    \/ RequestLogAndSummary

Spec == Init /\ [][Next]_vars

\* One training run after another against a service whose jobs never reach
\* DONE, with nobody interrupting: the kernel runs the loop's statements one
\* after the other, so a turn of the loop that can be taken is taken.
NextSettled ==
    \/ StartRun("train")
    \/ LoadConfig
    \/ TrainPayload
    \/ TrainPost
    \/ TrainBind
    \/ PollGetSettled
    \/ TrainPollSleep

SpecSettled ==
    Init /\ [][NextSettled]_vars /\ WF_vars(PollGetSettled) /\ WF_vars(TrainPollSleep)

\* The create-device notebook up to its POST, run after a training run has
\* finished and saved its model, on any asset-model file.
InitMetric ==
    /\ Pavg_kpi = PyStr("Wind_Turbine_Test_1")
    /\ dimension \in Columns
    /\ nb = "train" /\ pc = "done" /\ error = ""
    /\ ns = {"input_data", "model_factory_config", "payload", "files", "endpoint_url",
             "response", "post_r_json", "job_id", "log_url", "summary_url", "json_data",
             "performance_dictionary", "model", "model_selected", "output_data"}
    /\ input_data = Pavg_kpi /\ files = {"data_file"}
    /\ response = [status_code |-> 200, json |-> TRUE, has_job_id |-> TRUE,
                   job_id |-> PyStr("7151b7c4")]
    /\ job_id = PyStr("7151b7c4")
    /\ json_data = [json |-> TRUE, has_status |-> TRUE, status |-> "DONE", has_pd |-> TRUE,
                    pd |-> <<[name |-> "LGBM1", model_uri |-> ModelUriOf("LGBM1"),
                              performance |-> 1]>>]
    /\ performance_dictionary = json_data.pd
    /\ model = "LGBM1" /\ model_selected = "LGBM1" /\ choice = 0
    /\ lastDumped = [mas_device_name |-> Pavg_kpi, onnx_model_uri |-> ModelUriOf("LGBM1"),
                     train_job_id |-> job_id]
    /\ model_info_yml = [exists |-> TRUE, doc |-> yaml_dump(lastDumped)]
    /\ savedFrom = [job_id |-> job_id, status |-> "DONE", has_model_uri |-> TRUE]
    /\ model_info_data = NoModelInfo /\ payload = NoPayload
    /\ logs = NoLogs /\ summary = NoSummary /\ printed = ""
    /\ posts = 1 /\ summaryGets = 1 /\ logGets = 0 /\ getIds = {job_id}
    /\ waited = FALSE /\ wrote = TRUE

NextMetric ==
    \/ StartRun("create_device")
    \/ LoadConfig
    \/ LoadModelInfo
    \/ PreparePayload
    \/ SubmitJob

SpecMetric == InitMetric /\ [][NextMetric]_vars

\* ------------------------------------------------------------ properties
TrainingDone == json_data.has_status /\ json_data.status = "DONE"
LoadedInfo == yaml_safe_load(model_info_yml.doc)
Later == {"create_device", "deploy_model"}

\* C1: the training poll loop leaves the loop for the next cell only on a
\* summary whose status is DONE (never while the last status seen is
\* INITIALIZING or EXECUTING), and once a DONE summary has been seen it issues
\* no further summary GET and is no longer in the loop.
C1_PollReturnsOnDone ==
    [][ /\ (nb = "train" /\ pc \in {"poll", "sleep"} /\ pc' \notin {"poll", "sleep", "error"})
            => (pc' = "select" /\ json_data'.has_status /\ json_data'.status = "DONE")
        /\ (nb = "train" /\ "json_data" \in ns /\ TrainingDone)
            => (summaryGets' <= summaryGets /\ pc' \notin {"poll", "sleep"}) ]_vars
C1_Witness ==
    /\ nb = "train" /\ pc = "select" /\ TrainingDone
    /\ summaryGets = 3 /\ waited = FALSE

\* C2: the onnx_model_uri the save step stores is the model_uri of the entry
\* of performance_dictionary under model_selected.
C2_SavedUriIsSelected ==
    (nb = "train" /\ wrote)
        => LoadedInfo.onnx_model_uri
            = Lookup(performance_dictionary, model_selected).model_uri

\* C3: when the operator leaves the selection cell as shipped, model_selected
\* is the first key in insertion order, and it is the same for every
\* dictionary with these keys in this order, whatever its performance figures.
C3_DefaultIsFirstKey ==
    (nb = "train" /\ "model_selected" \in ns /\ choice = 0)
        => /\ model_selected = performance_dictionary[1].name
           /\ \A d \in PerformanceDictionaries :
                Keys(d) = Keys(performance_dictionary) => selectModel(d, 0) = model_selected
C3_Witness ==
    /\ nb = "train" /\ "model_selected" \in ns /\ choice = 0
    /\ Len(performance_dictionary) = 2
    /\ performance_dictionary[2].performance > performance_dictionary[1].performance
    /\ model_selected = performance_dictionary[1].name

\* C4: the ModelInfo mapping the train notebook dumped is what the file loads
\* back to, what the create-device and deploy notebooks hold after loading it,
\* and what the deploy notebook puts into its payload variables.
C4_ModelInfoRoundTrip ==
    /\ model_info_yml.exists => LoadedInfo = lastDumped
    /\ (nb \in Later /\ "model_info_data" \in ns) => model_info_data = lastDumped
    /\ (nb = "deploy_model" /\ "payload" \in ns)
        => /\ payload.onnx_model_uri = lastDumped.onnx_model_uri
           /\ payload.train_job_id = lastDumped.train_job_id
           /\ payload.mas_device_name = lastDumped.mas_device_name
C4_Witness ==
    /\ nb = "deploy_model" /\ "payload" \in ns
    /\ lastDumped.train_job_id = PyStr("12")
    /\ lastDumped.mas_device_name = PyStr("12")
    /\ model_info_yml.doc.train_job_id.style = "single"
    /\ model_info_data = lastDumped

\* C5: a run issues at most one POST, and a job_id it binds comes from exactly
\* one POST and is not the empty string.
C5_HandleIsNonEmpty ==
    /\ posts <= 1
    /\ "job_id" \in ns => (posts = 1 /\ job_id # PyStr(""))

\* C6: once the submit step has read a response with a non-2xx status code,
\* the run has failed, no job_id is bound and no GET has been issued.
C6_Non2xxIsFatal ==
    ("response" \in ns /\ response.status_code = 500 /\ pc # "bind")
        => (pc = "error" /\ "job_id" \notin ns /\ summaryGets = 0 /\ logGets = 0)

\* C7: when the submission response is JSON without a job_id field, the run
\* has failed with KeyError, no job_id is bound and no summary or log GET has
\* been issued.
C7_MissingJobIdIsFatal ==
    ("post_r_json" \in ns /\ ~response.has_job_id)
        => /\ pc = "error" /\ error = "KeyError"
           /\ "job_id" \notin ns
           /\ summaryGets = 0 /\ logGets = 0 /\ getIds = {}
C7_Witness ==
    /\ nb = "train" /\ "post_r_json" \in ns /\ ~response.has_job_id
    /\ response.status_code = 200 /\ posts = 1 /\ pc = "error"

\* C8: after the training poll has received a summary without a status
\* field, it issues no further summary GET.
C8_MissingStatusIsFatal ==
    [][(nb = "train" /\ "json_data" \in ns /\ ~json_data.has_status)
        => summaryGets' <= summaryGets]_vars

\* C9: once the POST has been issued (answered or raised), no file opened for
\* the multipart upload is still open.
C9_FilesClosedAfterPost ==
    posts >= 1 => files = {}

\* C10 as stated: create-device and deploy do not finish their status step
\* before they have seen status DONE.
C10_StatusStepWaitsForDone ==
    (nb \in Later /\ pc = "done") => (summary.has_status /\ summary.status = "DONE")
\* C10 as amended: create-device and deploy do not poll; their status step
\* issues at most one log GET and one summary GET, both for the job_id the POST
\* returned, and finishes after exactly one of each whatever status it saw.
C10_StatusStepIsOneShot ==
    /\ nb \in Later => (logGets <= 1 /\ summaryGets <= 1 /\ getIds \subseteq {job_id})
    /\ (nb \in Later /\ pc = "done")
        => (logGets = 1 /\ summaryGets = 1 /\ getIds = {job_id} /\ "summary" \in ns)
C10_Witness ==
    /\ nb = "deploy_model" /\ pc = "done"
    /\ summary.has_status /\ summary.status = "EXECUTING"
    /\ logGets = 1 /\ summaryGets = 1

\* C11: in the training poll a summary whose status is present and is not
\* DONE (INITIALIZING, EXECUTING, or another string such as FAILED) never ends
\* the loop: the client is in sleep(2), or has slept and is about to issue the
\* next summary GET for the same job_id, unless that next request itself raised
\* or the operator interrupted the kernel.
C11_NonDoneIsRetried ==
    (nb = "train" /\ "json_data" \in ns /\ json_data.has_status /\ json_data.status # "DONE")
        => /\ \/ pc = "sleep" /\ ~waited
              \/ pc = "poll" /\ waited
              \/ pc = "error"
                 /\ error \in {"ConnectionError", "JSONDecodeError", "KeyboardInterrupt"}
           /\ getIds = {job_id}
C11_Witness ==
    /\ nb = "train" /\ "json_data" \in ns
    /\ json_data.has_status /\ json_data.status = "FAILED"
    /\ pc = "poll" /\ waited /\ summaryGets = 2 /\ getIds = {job_id}

\* C12: against a job that stays in a status other than DONE the training
\* poll, once it is polling, never leaves the loop (no retry limit, no timeout,
\* no failure state) and issues a summary GET again and again, with the sleep
\* in between.
Polling == nb = "train" /\ pc \in {"poll", "sleep"} /\ job_id.t = "str"
C12_PollsForever ==
    [](Polling => ([]Polling /\ []<>(pc = "poll" /\ waited) /\ []<>(pc = "sleep" /\ ~waited)))
C12_Witness ==
    /\ Polling /\ pc = "sleep" /\ summaryGets = MaxPolls
    /\ json_data.has_status /\ json_data.status = "FAILED"

\* C13 as stated: whenever a run has issued a summary GET it has issued a log
\* GET as well, in the train notebook as in the other two.
C13_LogGetWhilePolling ==
    summaryGets >= 1 => logGets >= 1
\* C13 as amended: the create-device and deploy notebooks issue one GET to
\* log/{job_id} before their summary GET; the train notebook issues summary
\* GETs only, however long it polls.
C13_LogGetOnlyInStatusCell ==
    /\ nb = "train" => logGets = 0
    /\ (nb \in Later /\ summaryGets >= 1) => logGets = 1
    /\ logGets >= 1 => getIds = {job_id}
C13_Witness ==
    /\ nb = "create_device" /\ pc = "done"
    /\ logGets = 1 /\ summaryGets = 1 /\ logs.has_logs

\* C15: no cell of a notebook changes the KPI specification file or the
\* asset-model file (the KPI file changes only between runs, in the operator's
\* hands), and the only step that changes model_info.yml is the save cell of
\* the train notebook; the create-device and deploy notebooks, and every
\* submit and poll step, leave the files as they are.
C15_OnlySaveWrites ==
    [][ /\ Pavg_kpi' # Pavg_kpi => (pc \in {"idle", "done", "error"} /\ pc' = "load")
        /\ dimension' = dimension
        /\ model_info_yml' # model_info_yml
            => (nb = "train" /\ pc = "save" /\ nb' = "train" /\ pc' = "done" /\ wrote') ]_vars
C15_Witness ==
    /\ nb = "deploy_model" /\ pc = "done" /\ posts = 1 /\ summaryGets = 1
    /\ model_info_yml.exists /\ model_info_data = LoadedInfo

\* C16: whenever the save cell of a run has written model_info.yml, the last
\* summary the run observed has status DONE; a run whose last summary has no
\* status, or another status, has written nothing.
C16_WrittenOnlyAfterDone ==
    /\ wrote => (nb = "train" /\ "json_data" \in ns
                 /\ json_data.has_status /\ json_data.status = "DONE")
    /\ (nb = "train" /\ ~(json_data.has_status /\ json_data.status = "DONE"))
        => (~wrote /\ pc \notin {"select", "save", "done"})
C16_Witness ==
    /\ nb = "train" /\ pc = "done" /\ wrote /\ summaryGets = 2
    /\ json_data.status = "DONE" /\ model_info_yml.exists

\* C17: a run sends its submission POST at most once, and a POST that fails
\* in transport ends the run in an error with no further request; the log GET
\* and the summary GET of the status cell are sent at most once, so the only
\* request a run repeats is the summary GET of the training poll loop.
C17_PostNeverRetried ==
    /\ posts <= 1
    /\ logGets <= 1
    /\ nb \in Later => summaryGets <= 1
    /\ (posts = 1 /\ "response" \notin ns)
        => (pc = "error" /\ error = "ConnectionError" /\ summaryGets = 0 /\ logGets = 0)
C17_Witness ==
    /\ posts = 1 /\ "response" \notin ns
    /\ pc = "error" /\ error = "ConnectionError"

\* C18: a run sends at most one submission POST, a finished run has sent
\* exactly one, and every summary or log GET of a run names the job_id that
\* the answer to that run's own POST carried.
C18_OneJobPerRun ==
    /\ posts <= 1
    /\ pc = "done" => posts = 1
    /\ (summaryGets + logGets >= 1)
        => /\ posts = 1 /\ "job_id" \in ns
           /\ job_id = response.job_id
           /\ getIds = {job_id}
C18_Witness ==
    /\ nb = "deploy_model" /\ pc = "done" /\ posts = 1
    /\ logGets = 1 /\ summaryGets = 1 /\ getIds = {job_id}
    /\ model_info_data.train_job_id # job_id

\* C19: the create-device notebook can be run before the train notebook has
\* saved model_info.yml: with no such file, its load cell goes on to the
\* payload cells (and from there to the POST) instead of stopping the run.
C19_CreateDeviceBeforeSave ==
    [][ (nb = "create_device" /\ pc = "load_model_info" /\ ~model_info_yml.exists)
            => (pc' = "payload" /\ error' = "") ]_vars

\* C20: the payload the deploy notebook posts carries onnx_model_uri,
\* mas_device_name and train_job_id exactly as yaml.safe_load returned them
\* from model_info.yml, prepare_kpi_dashboard as the boolean False, and its
\* files list has the single part iot_credentials.
C20_DeployPayload ==
    (nb = "deploy_model" /\ posts = 1)
        => /\ payload.onnx_model_uri = model_info_data.onnx_model_uri
           /\ payload.mas_device_name = model_info_data.mas_device_name
           /\ payload.train_job_id = model_info_data.train_job_id
           /\ model_info_data = yaml_safe_load(model_info_yml.doc)
           /\ payload.prepare_kpi_dashboard = [t |-> "bool", v |-> "False"]
           /\ DOMAIN payload = {"onnx_model_uri", "mas_device_name", "train_job_id",
                                "prepare_kpi_dashboard"}
           /\ files = {"iot_credentials"}
C20_Witness ==
    /\ nb = "deploy_model" /\ posts = 1 /\ "response" \in ns
    /\ payload.onnx_model_uri = ModelUriOf("LGBM2")
    /\ payload.train_job_id.t = "str" /\ payload.mas_device_name.t = "str"
    /\ files = {"iot_credentials"}

\* C21: once the save cell of a training run has written model_info.yml, the
\* record's train_job_id is the job_id the answer to that run's POST carried,
\* which is the id every summary GET of the run named, and its
\* mas_device_name is the one of the KPI specification the run loaded.
C21_SavedIdsAreTheRuns ==
    (nb = "train" /\ wrote)
        => /\ LoadedInfo.train_job_id = response.job_id
           /\ getIds = {LoadedInfo.train_job_id}
           /\ LoadedInfo.mas_device_name = input_data
           /\ input_data = Pavg_kpi
C21_Witness ==
    /\ nb = "train" /\ wrote /\ pc = "done"
    /\ LoadedInfo.train_job_id = PyStr("12")
    /\ LoadedInfo.mas_device_name = PyStr("12")
    /\ response.job_id = PyStr("12") /\ Pavg_kpi = PyStr("12")

\* C22: in every run of the create-device or the deploy notebook that has
\* posted, the device name sent (device_type_name, resp. mas_device_name) is
\* the mas_device_name of the record the run read from model_info.yml, which
\* is the one the train notebook stored; the other of the two notebooks sends
\* the same name for the same record, whatever the KPI specification says now.
DeviceNameSent(n, p) ==
    IF n = "create_device" THEN p.device_type_name ELSE p.mas_device_name
C22_DeviceNameConsistent ==
    (nb \in Later /\ posts = 1)
        => /\ model_info_data = LoadedInfo
           /\ DeviceNameSent(nb, payload) = LoadedInfo.mas_device_name
           /\ LoadedInfo.mas_device_name = lastDumped.mas_device_name
           /\ \A m \in Later :
                DeviceNameSent(m, PayloadOf(m, LoadedInfo)) = DeviceNameSent(nb, payload)
C22_Witness ==
    /\ nb = "create_device" /\ posts = 1 /\ "response" \in ns
    /\ payload.device_type_name = PyStr("12")
    /\ Pavg_kpi = PyStr("Wind_Turbine_Test_1")

\* C23: in every sequence of runs from a state without model_info.yml, the
\* train_job_id a deploy run posts is the job_id of a training job whose
\* summary the train notebook saw with status DONE (and which every summary
\* GET of that run named), and the onnx_model_uri it posts is a model_uri of
\* the performance_dictionary of that job's summary.
C23_DeploySendsDoneJob ==
    (nb = "deploy_model" /\ posts = 1)
        => /\ savedFrom.status = "DONE"
           /\ payload.train_job_id = savedFrom.job_id
           /\ payload.onnx_model_uri = lastDumped.onnx_model_uri
           /\ savedFrom.has_model_uri
C23_Witness ==
    /\ nb = "deploy_model" /\ posts = 1 /\ "response" \in ns
    /\ savedFrom.job_id = PyStr("12") /\ savedFrom.status = "DONE"
    /\ payload.train_job_id = PyStr("12")
    /\ payload.onnx_model_uri = ModelUriOf("RF")

\* C24: the training poll loop sleeps between any two consecutive summary
\* GETs: a GET that is not the first of its run is issued only after
\* sleep(2) has run since the GET before it, whatever body that GET returned.
C24_SleepBetweenGets ==
    [][(nb = "train" /\ summaryGets >= 1 /\ summaryGets' = summaryGets + 1) => waited]_vars

\* C25: when the training poll receives a summary with status DONE and no
\* performance_dictionary, the run stops there with an error: the loop neither
\* goes on to the selection cell nor polls again, and the run writes nothing.
C25_DoneWithoutDictionary ==
    /\ (nb = "train" /\ "json_data" \in ns /\ TrainingDone /\ ~json_data.has_pd)
        => (pc = "error" /\ error = "KeyError" /\ ~wrote
            /\ "performance_dictionary" \notin ns)
    /\ [][(nb = "train" /\ "json_data" \in ns /\ TrainingDone /\ ~json_data.has_pd)
            => (pc' = "load" /\ ns' = {} /\ model_info_yml' = model_info_yml)]_vars
C25_Witness ==
    /\ nb = "train" /\ "json_data" \in ns /\ TrainingDone /\ ~json_data.has_pd
    /\ pc = "error" /\ summaryGets = 2 /\ model_info_yml.exists

\* C26: in the create-device and deploy notebooks, a log GET answered with a
\* JSON body never stops the cell: with a logs field its text is printed,
\* without one the whole body is printed, and in both cases the summary GET
\* is issued.
C26_LogStepProceeds ==
    (nb \in Later /\ logGets = 1 /\ logs.json)
        => /\ printed = (IF logs.has_logs THEN "logs" ELSE "body")
           /\ summaryGets = 1
           /\ pc = "error" => error \in {"ConnectionError", "JSONDecodeError"}
C26_Witness ==
    /\ nb = "deploy_model" /\ logGets = 1 /\ logs.json /\ ~logs.has_logs
    /\ printed = "body" /\ summaryGets = 1 /\ pc = "done"
    /\ summary.status = "EXECUTING"

\* C27: the metric_columns the create-device notebook posts is the text made
\* of the distinct values of the dimension column, each once, in the order in
\* which they first appear in the column, with a comma between neighbours.
ValuesOf(text) == [i \in 1..((Len(text) + 1) \div 2) |-> text[2 * i - 1]]
FirstRow(col, x) == CHOOSE i \in 1..Len(col) : col[i] = x /\ \A j \in 1..(i - 1) : col[j] # x
C27_MetricColumns ==
    (nb = "create_device" /\ posts = 1)
        => LET text == payload.metric_columns
               values == ValuesOf(text)
           IN  /\ Len(text) = (IF dimension = << >> THEN 0 ELSE 2 * Len(values) - 1)
               /\ \A i \in 1..Len(text) : (i % 2 = 0) => text[i] = ","
               /\ {values[i] : i \in 1..Len(values)} = {dimension[i] : i \in 1..Len(dimension)}
               /\ \A i, j \in 1..Len(values) :
                    i < j => FirstRow(dimension, values[i]) < FirstRow(dimension, values[j])
C27_Witness ==
    /\ nb = "create_device" /\ posts = 1 /\ "response" \in ns
    /\ dimension = <<"power", "speed", "power">>
    /\ payload.metric_columns = <<"power", ",", "speed">>
====
